---------------------------- MODULE Spec2Model ----------------------------
(***************************************************************************)
(* LaBOLA futsal monitor: the notification ledger and dispatcher           *)
(* (src/src/notifier.py), the run orchestration (src/main.py) and the      *)
(* extraction engine (src/src/scraper.py).                                 *)
(*                                                                         *)
(* Text is a sequence of tokens.  A token stands for a run of characters   *)
(* that no operation of the program splits: " " is one whitespace          *)
(* character, "\n" the line terminator, "http" the four characters the     *)
(* program tests an href for, and the remaining tokens are single glyphs   *)
(* or opaque path fragments.                                               *)
(***************************************************************************)
EXTENDS Integers, Sequences, FiniteSets, TLC

VARIABLES
    file,        \* contents of data/sent_urls.txt (a token sequence)
    sent_urls,   \* LineNotifier.sent_urls of the most recent notifier
    creds,       \* channel_access_token and user_id are both set
    events,      \* main: list(scraper.scrape_all()) of the current run
    new_events,  \* notify_all: the filtered list it iterates over
    i,           \* notify_all: position of the for loop in new_events
    success,     \* notify_all: success counter
    failed,      \* notify_all: failed counter
    pc,          \* position of the run
    exit_code,   \* value returned by main of the last run (-1: none / killed)
    runs,        \* number of runs started
    file0,       \* history: the file before the first run
    loaded,      \* history: what _load_sent_urls returned in this run
    fstart,      \* history: the file when this run loaded it
    delivered,   \* history: per URL, pushes answered with HTTP 200
    log,         \* history: delivery attempts of this run, in order
    reports,     \* history: "[ERROR] LINE credentials not configured" prints
    posts,       \* history: requests.post calls of this run
    interrupted, \* history: some run was killed before it returned
    lines,       \* data/dates.txt: whether it exists, and its lines
    dates,       \* scrape_all: the list load_dates returned
    di,          \* scrape_all: position of the for loop in dates
    ci,          \* parse_events: cards of the current page handled so far
    ps,          \* position of scrape_all
    out,         \* scrape_all: events yielded so far
    fetched,     \* history: one record per fetch_page call
    expected,    \* history: the accepted cards met, with their date
    note,        \* history: a card was skipped, then an event was produced
    card,        \* the arguments of the acceptance predicate under test
    verdict      \* what _is_valid_card returned for them

runVars == <<file, sent_urls, creds, events, new_events, i, success, failed,
             pc, exit_code, runs, file0, loaded, fstart, delivered, log, reports,
             posts, interrupted>>
scrapeVars == <<lines, dates, di, ci, ps, out, fetched, expected, note>>
cardVars == <<card, verdict>>
vars == <<runVars, scrapeVars, cardVars>>

-----------------------------------------------------------------------------
(* Bounds of the model *)

\* runs of main in one behaviour
MaxRuns == 2
\* events one run extracts
MaxEvents == 2
\* lines of data/dates.txt
MaxDates == 2
\* cards on one page
MaxCards == 2
\* glyphs of a card text given to the acceptance predicate
MaxText == 6

-----------------------------------------------------------------------------
(* Text helpers *)

IsSpace(t) == t \in {" ", "\n"}

SetMin(S) == CHOOSE x \in S : \A y \in S : x <= y
SetMax(S) == CHOOSE x \in S : \A y \in S : y <= x

\* str.strip(): what lies between the first and the last token that is not
\* white space
strip(s) ==
    LET ink == {k \in 1..Len(s) : ~IsSpace(s[k])}
    IN  IF ink = {} THEN <<>> ELSE SubSeq(s, SetMin(ink), SetMax(ink))

\* iteration over a text file: the lines, each ending with its terminator
\* (the last one ends with the file)
LineEnds(s) == {k \in 1..Len(s) : s[k] = "\n" \/ k = Len(s)}
LineStart(s, e) == SetMax({0} \cup {k \in LineEnds(s) : k < e}) + 1
splitlines(s) == {SubSeq(s, LineStart(s, e), e) : e \in LineEnds(s)}

Range(s) == {s[k] : k \in 1..Len(s)}

-----------------------------------------------------------------------------
(* Events *)

BASE_URL == <<"http", "s://labola.jp">>

\* href="/1"
U1 == BASE_URL \o <<"/1">>
\* href="/1 ": an href may carry surrounding white space
U1sp == BASE_URL \o <<"/1", " ">>
Urls == {U1, U1sp}

D1 == <<"2", "0", "2", "6", "0", "2", "0", "7">>
D2 == <<"2", "0", "2", "6", "0", "2", "0", "8">>

Event(t, f, u, d) == [title |-> t, facility |-> f, url |-> u, date |-> d]

EventPool ==
    { Event("t", "", U1, D1), Event("t", "", U1, D2),
      Event("t", "", U1sp, D1) }

EventLists == UNION { [1..n -> EventPool] : n \in 0..MaxEvents }

-----------------------------------------------------------------------------
(* LineNotifier *)

load_sent_urls(f) == {strip(l) : l \in splitlines(f)} \ {<<>>}

save_sent_url_file(f, url) == f \o url \o <<"\n">>

save_sent_url_set(s, url) == s \cup {url}

is_new_event(event, s) == event.url \notin s

filter_new_events(evs, s) == SelectSeq(evs, LAMBDA e : is_new_event(e, s))

\* faulty variant: one failure is tolerated
ExitCode_OffByOne(nfailed) == IF nfailed <= 1 THEN 0 ELSE 1

\* main, line 64
ExitCode(nfailed) == IF nfailed = 0 THEN 0 ELSE 1

\* the state of a process that is not running: nothing in memory
NoProcess ==
    /\ sent_urls = {}
    /\ creds = TRUE
    /\ events = <<>>
    /\ new_events = <<>>
    /\ i = 1
    /\ success = 0
    /\ failed = 0
    /\ exit_code = -1
    /\ loaded = {}
    /\ fstart = <<>>
    /\ log = <<>>
    /\ reports = 0
    /\ posts = 0

\* process exit: what was in memory is gone
ProcessGone ==
    /\ sent_urls' = {}
    /\ creds' = TRUE
    /\ events' = <<>>
    /\ new_events' = <<>>
    /\ i' = 1
    /\ success' = 0
    /\ failed' = 0
    /\ exit_code' = -1
    /\ loaded' = {}
    /\ fstart' = <<>>
    /\ log' = <<>>
    /\ reports' = 0
    /\ posts' = 0

InitRun ==
    /\ file \in {<<>>, save_sent_url_file(<<>>, U1)}
    /\ file0 = file
    /\ pc = "idle"
    /\ runs = 0
    /\ delivered = [u \in Urls |-> 0]
    /\ interrupted = FALSE
    /\ NoProcess

\* One run of main up to the first delivery attempt: the extraction result
\* evs, LineNotifier(...) with the environment's credentials c, main's
\* filter_new_events and the head of notify_all (which filters again, with
\* the same set and therefore the same result).
StartRun(evs, c) ==
    /\ pc = "idle"
    /\ runs < MaxRuns
    /\ runs' = runs + 1
    /\ events' = evs
    /\ fstart' = file
    /\ IF evs = <<>>
       THEN \* main, lines 31-34: no notifier is constructed
            /\ exit_code' = 0
            /\ pc' = "returned"
            /\ UNCHANGED <<sent_urls, creds, loaded, new_events>>
       ELSE LET s == load_sent_urls(file)
                new == filter_new_events(evs, s)
            IN  /\ creds' = c
                /\ sent_urls' = s
                /\ loaded' = s
                /\ new_events' = new
                /\ IF new = <<>>
                   THEN exit_code' = 0 /\ pc' = "returned"
                   ELSE exit_code' = -1 /\ pc' = "send"
    \* notify_all, lines 132-135: the counters and the loop start afresh
    /\ success' = 0
    /\ failed' = 0
    /\ i' = 1
    /\ UNCHANGED <<file, file0, delivered, log, reports, posts, interrupted,
                   scrapeVars, cardVars>>

InLoop == pc = "send" /\ i <= Len(new_events)

\* faulty variant: the credentials are not checked before the request is made
SendNoCredentials_Posts ==
    /\ InLoop
    /\ ~creds
    /\ posts' = posts + 1
    /\ reports' = reports + 1
    /\ failed' = failed + 1
    /\ log' = Append(log, [url |-> new_events[i].url, ok |-> FALSE])
    /\ i' = i + 1
    /\ UNCHANGED <<file, sent_urls, creds, events, new_events, success, pc,
                   exit_code, runs, file0, loaded, fstart, delivered,
                   interrupted, scrapeVars, cardVars>>

\* send_notification, lines 58-61, and notify_all, lines 138-139
SendNoCredentials ==
    /\ InLoop
    /\ ~creds
    /\ reports' = reports + 1
    /\ failed' = failed + 1
    /\ log' = Append(log, [url |-> new_events[i].url, ok |-> FALSE])
    /\ i' = i + 1
    /\ UNCHANGED <<file, sent_urls, creds, events, new_events, success, pc,
                   exit_code, runs, file0, loaded, fstart, delivered, posts,
                   interrupted, scrapeVars, cardVars>>

\* send_notification, lines 83-91: requests.post answered with status 200
PostOk ==
    /\ InLoop
    /\ creds
    /\ posts' = posts + 1
    /\ delivered' = [delivered EXCEPT ![new_events[i].url] = @ + 1]
    /\ pc' = "posted"
    /\ UNCHANGED <<file, sent_urls, creds, events, new_events, i, success,
                   failed, exit_code, runs, file0, loaded, fstart, log,
                   reports, interrupted, scrapeVars, cardVars>>

\* faulty variant: the URL is recorded whatever the status code
PostStatusError_Commits ==
    /\ InLoop
    /\ creds
    /\ posts' = posts + 1
    /\ file' = save_sent_url_file(file, new_events[i].url)
    /\ sent_urls' = save_sent_url_set(sent_urls, new_events[i].url)
    /\ failed' = failed + 1
    /\ log' = Append(log, [url |-> new_events[i].url, ok |-> FALSE])
    /\ i' = i + 1
    /\ UNCHANGED <<creds, events, new_events, success, pc, exit_code, runs,
                   file0, loaded, fstart, delivered, reports, interrupted,
                   scrapeVars, cardVars>>

\* send_notification, lines 94-97: any other status code; notify_all, 138-139
PostStatusError ==
    /\ InLoop
    /\ creds
    /\ posts' = posts + 1
    /\ failed' = failed + 1
    /\ log' = Append(log, [url |-> new_events[i].url, ok |-> FALSE])
    /\ i' = i + 1
    /\ UNCHANGED <<file, sent_urls, creds, events, new_events, success, pc,
                   exit_code, runs, file0, loaded, fstart, delivered,
                   reports, interrupted, scrapeVars, cardVars>>

\* faulty variant: the exception is not caught per event and ends the loop
PostException_Aborts ==
    /\ InLoop
    /\ creds
    /\ posts' = posts + 1
    /\ failed' = failed + 1
    /\ log' = Append(log, [url |-> new_events[i].url, ok |-> FALSE])
    /\ i' = Len(new_events) + 1
    /\ UNCHANGED <<file, sent_urls, creds, events, new_events, success, pc,
                   exit_code, runs, file0, loaded, fstart, delivered,
                   reports, interrupted, scrapeVars, cardVars>>

\* send_notification, lines 99-101: requests.RequestException; notify_all,
\* lines 138-139
PostException ==
    /\ InLoop
    /\ creds
    /\ posts' = posts + 1
    /\ failed' = failed + 1
    /\ log' = Append(log, [url |-> new_events[i].url, ok |-> FALSE])
    /\ i' = i + 1
    /\ UNCHANGED <<file, sent_urls, creds, events, new_events, success, pc,
                   exit_code, runs, file0, loaded, fstart, delivered,
                   reports, interrupted, scrapeVars, cardVars>>

\* _save_sent_url, lines 44-45: the append to the file
SaveFile ==
    /\ pc = "posted"
    /\ file' = save_sent_url_file(file, new_events[i].url)
    /\ pc' = "written"
    /\ UNCHANGED <<sent_urls, creds, events, new_events, i, success, failed,
                   exit_code, runs, file0, loaded, fstart, delivered, log,
                   reports, posts, interrupted, scrapeVars, cardVars>>

\* _save_sent_url, line 46, then send_notification returns True and
\* notify_all counts it (lines 136-137)
SaveSet ==
    /\ pc = "written"
    /\ sent_urls' = save_sent_url_set(sent_urls, new_events[i].url)
    /\ success' = success + 1
    /\ log' = Append(log, [url |-> new_events[i].url, ok |-> TRUE])
    /\ i' = i + 1
    /\ pc' = "send"
    /\ UNCHANGED <<file, creds, events, new_events, failed, exit_code, runs,
                   file0, loaded, fstart, delivered, reports, posts,
                   interrupted, scrapeVars, cardVars>>

\* notify_all returns (success, failed); main returns the exit code
Return ==
    /\ pc = "send"
    /\ i > Len(new_events)
    /\ exit_code' = ExitCode(failed)
    /\ pc' = "returned"
    /\ UNCHANGED <<file, sent_urls, creds, events, new_events, i, success,
                   failed, runs, file0, loaded, fstart, delivered, log,
                   reports, posts, interrupted, scrapeVars, cardVars>>

\* the process is gone after main returned: only the file remains
Exit ==
    /\ pc = "returned"
    /\ pc' = "idle"
    /\ ProcessGone
    /\ UNCHANGED <<file, runs, file0, delivered, interrupted, scrapeVars,
                   cardVars>>

\* the process is killed between two steps of the delivery loop
Interrupt ==
    /\ pc \in {"send", "posted", "written"}
    /\ pc' = "idle"
    /\ interrupted' = TRUE
    /\ ProcessGone
    /\ UNCHANGED <<file, runs, file0, delivered, scrapeVars, cardVars>>

-----------------------------------------------------------------------------
(* LaBOLAScraper *)

\* the glyphs of the keywords
UKETSUKECHU == <<"uke", "tsu", "ke", "chu">>
TAIKAI == <<"dai", "kai">>
REQUIRED_KEYWORDS == <<UKETSUKECHU, TAIKAI>>
EXCLUDED_KEYWORD == <<"sen", "ju", "dai", "hashi">>

\* Python's "sub in s" on strings
Contains(sub, s) ==
    \E k \in 0..(Len(s) - Len(sub)) : SubSeq(s, k + 1, k + Len(sub)) = sub

\* s.startswith("http")
StartsWithHttp(s) == s # <<>> /\ Head(s) = "http"

\* faulty variant: the status is searched for the keyword instead of compared
is_valid_card_substring(card_text, title, status) ==
    IF Contains(EXCLUDED_KEYWORD, card_text)
    THEN <<FALSE, "excluded">>
    ELSE IF UKETSUKECHU \in Range(REQUIRED_KEYWORDS)
            /\ ~Contains(UKETSUKECHU, status)
    THEN <<FALSE, "status">>
    ELSE IF TAIKAI \in Range(REQUIRED_KEYWORDS) /\ ~Contains(TAIKAI, card_text)
    THEN <<FALSE, "keyword">>
    ELSE <<TRUE, "OK">>

is_valid_card(card_text, title, status) ==
    IF Contains(EXCLUDED_KEYWORD, card_text)
    THEN <<FALSE, "excluded">>
    ELSE IF UKETSUKECHU \in Range(REQUIRED_KEYWORDS) /\ status # UKETSUKECHU
    THEN <<FALSE, "status">>
    ELSE IF TAIKAI \in Range(REQUIRED_KEYWORDS) /\ ~Contains(TAIKAI, card_text)
    THEN <<FALSE, "keyword">>
    ELSE <<TRUE, "OK">>

\* ^\d{8}$ on a stripped line
Digits == {"0", "1", "2", "3", "4", "5", "6", "7", "8", "9"}
IsDate(s) == Len(s) = 8 /\ \A k \in 1..Len(s) : s[k] \in Digits

\* load_dates: a missing file gives no date; blank lines are dropped, the
\* rest is stripped and kept when it is eight digits
load_dates(ls) ==
    IF ~ls.exists THEN <<>>
    ELSE SelectSeq([k \in 1..Len(ls.text) |-> strip(ls.text[k])],
                   LAMBDA d : d # <<>> /\ IsDate(d))

\* card.get_text(separator=" ", strip=True): the non-empty stripped strings
\* of the card, joined by one space
RECURSIVE JoinSp(_)
JoinSp(parts) ==
    IF parts = <<>> THEN <<>>
    ELSE IF Head(parts) = <<>> THEN JoinSp(Tail(parts))
    ELSE IF JoinSp(Tail(parts)) = <<>> THEN Head(parts)
    ELSE Head(parts) \o <<" ">> \o JoinSp(Tail(parts))

CardText(c) ==
    JoinSp(<<IF c.has_title THEN c.title ELSE <<>>, c.status, c.body>>)

\* parse_events, lines 108-110
FullUrl(href) == IF StartsWithHttp(href) THEN href ELSE BASE_URL \o href

\* the body of parse_events' loop for one card: the events it appends
parse_card(c, date) ==
    IF ~c.has_title THEN <<>>
    ELSE IF ~c.has_link THEN <<>>
    ELSE IF c.title = <<>> THEN <<>>
    ELSE IF ~is_valid_card(CardText(c), c.title, c.status)[1] THEN <<>>
    ELSE <<Event(c.title, c.facility, FullUrl(c.href), date)>>

Card(ht, hl, h, t, st, b) ==
    [has_title |-> ht, has_link |-> hl, href |-> h, title |-> t,
     status |-> st, body |-> b, facility |-> <<"f">>]

MANSEKI == <<"man", "seki">>

CardPool ==
    { Card(TRUE, TRUE, <<"/1">>, <<"x">> \o TAIKAI, UKETSUKECHU, <<>>),
      Card(TRUE, TRUE, <<"http", "s://o", "/2">>, <<"y">>, UKETSUKECHU, TAIKAI),
      Card(FALSE, FALSE, <<>>, <<>>, UKETSUKECHU, TAIKAI),
      Card(TRUE, FALSE, <<>>, <<>>, UKETSUKECHU, TAIKAI),
      Card(TRUE, TRUE, <<"/3">>, <<>>, UKETSUKECHU, TAIKAI),
      Card(TRUE, TRUE, <<"/4">>, TAIKAI, UKETSUKECHU, EXCLUDED_KEYWORD),
      Card(TRUE, TRUE, <<"/5">>, TAIKAI, MANSEKI, <<>>) }

BadDate == <<"2", "0", "2", "6", "-", "0", "2">>
DateLinePool == {D1 \o <<"\n">>, <<" ">> \o D2 \o <<"\n">>, BadDate, <<"\n">>}
NoDateFile == [exists |-> FALSE, text |-> <<>>]
DateFiles ==
    {NoDateFile} \cup
    { [exists |-> TRUE, text |-> t] :
        t \in UNION { [1..n -> DateLinePool] : n \in 0..MaxDates } }

InitRunIdle ==
    /\ file = <<>>
    /\ file0 = <<>>
    /\ pc = "idle"
    /\ runs = 0
    /\ delivered = [u \in Urls |-> 0]
    /\ interrupted = FALSE
    /\ NoProcess

InitScrapeIdle ==
    /\ lines = NoDateFile
    /\ dates = <<>>
    /\ di = 1
    /\ ci = 0
    /\ ps = "done"
    /\ out = <<>>
    /\ fetched = <<>>
    /\ expected = <<>>
    /\ note = "none"

InitCardIdle ==
    /\ card = [card_text |-> <<>>, title |-> <<>>, status |-> <<>>]
    /\ verdict = <<FALSE, "unchecked">>

\* scrape_all, lines 189-195
InitScrape ==
    /\ lines \in DateFiles
    /\ dates = load_dates(lines)
    /\ di = 1
    /\ ci = 0
    /\ ps = "fetch"
    /\ out = <<>>
    /\ fetched = <<>>
    /\ expected = <<>>
    /\ note = "none"

\* fetch_page returns a parsed document (lines 76-78)
FetchOk ==
    /\ ps = "fetch"
    /\ di <= Len(dates)
    /\ fetched' = Append(fetched, [date |-> dates[di], ok |-> TRUE])
    /\ ps' = "parse"
    /\ ci' = 0
    /\ UNCHANGED <<lines, dates, di, out, expected, note, runVars, cardVars>>

\* faulty variant: a failed fetch ends scrape_all
FetchFail_Returns ==
    /\ ps = "fetch"
    /\ di <= Len(dates)
    /\ fetched' = Append(fetched, [date |-> dates[di], ok |-> FALSE])
    /\ ps' = "done"
    /\ UNCHANGED <<lines, dates, di, ci, out, expected, note, runVars,
                   cardVars>>

\* fetch_page returns None (lines 79-81); scrape_all continues (199-200)
FetchFail ==
    /\ ps = "fetch"
    /\ di <= Len(dates)
    /\ fetched' = Append(fetched, [date |-> dates[di], ok |-> FALSE])
    /\ di' = di + 1
    /\ UNCHANGED <<lines, dates, ci, ps, out, expected, note, runVars,
                   cardVars>>

\* history: an accepted card is one that has its title element and its
\* link, a non-empty title, no excluded keyword in its text, the accepting
\* status and the required keyword in its text
Accepted(c) ==
    /\ c.has_title /\ c.has_link /\ c.title # <<>>
    /\ ~Contains(EXCLUDED_KEYWORD, CardText(c))
    /\ c.status = UKETSUKECHU
    /\ Contains(TAIKAI, CardText(c))

\* history: a card without its title element, without its inner link, or
\* with an empty title
Malformed(c) == ~c.has_title \/ ~c.has_link \/ c.title = <<>>

\* one iteration of parse_events' loop (lines 93-143) and the yield of what
\* it appended (scrape_all, lines 205-206)
ParseCard(c) ==
    /\ ps = "parse"
    /\ ci < MaxCards
    /\ ci' = ci + 1
    /\ out' = out \o parse_card(c, dates[di])
    /\ expected' = IF Accepted(c)
                   THEN Append(expected, <<c, fetched[Len(fetched)].date>>)
                   ELSE expected
    /\ note' = IF note = "none" /\ Malformed(c) THEN "skipped"
               ELSE IF note = "skipped" /\ parse_card(c, dates[di]) # <<>>
               THEN "event after skip"
               ELSE note
    /\ UNCHANGED <<lines, dates, di, ps, fetched, runVars, cardVars>>

\* the page has no further card: scrape_all goes to the next date
EndPage ==
    /\ ps = "parse"
    /\ di' = di + 1
    /\ ps' = "fetch"
    /\ UNCHANGED <<lines, dates, ci, out, fetched, expected, note, runVars,
                   cardVars>>

\* the for loop of scrape_all is exhausted (or there was no date)
ScrapeDone ==
    /\ ps = "fetch"
    /\ di > Len(dates)
    /\ ps' = "done"
    /\ UNCHANGED <<lines, dates, di, ci, out, fetched, expected, note,
                   runVars, cardVars>>

-----------------------------------------------------------------------------
(* The acceptance predicate on its own *)

Glyphs == {"sen", "ju", "dai", "hashi", "kai"}
CardTexts == UNION { [1..n -> Glyphs] : n \in 0..MaxText }
Statuses == {<<>>, UKETSUKECHU, UKETSUKECHU \o <<"kai">>, MANSEKI}
Titles == {<<>>, TAIKAI}

InitCard ==
    /\ card \in [card_text : CardTexts, title : Titles, status : Statuses]
    /\ verdict = <<FALSE, "unchecked">>

CheckCard ==
    /\ verdict[2] = "unchecked"
    /\ verdict' = is_valid_card(card.card_text, card.title, card.status)
    /\ UNCHANGED <<card, runVars, scrapeVars>>

-----------------------------------------------------------------------------
(* Specifications *)

Init == InitRun /\ InitScrapeIdle /\ InitCardIdle

Next ==
    \/ \E evs \in EventLists, c \in BOOLEAN : StartRun(evs, c)
    \/ SendNoCredentials
    \/ PostOk
    \/ PostStatusError
    \/ PostException
    \/ SaveFile
    \/ SaveSet
    \/ Return
    \/ Exit
    \/ Interrupt

Spec == Init /\ [][Next]_vars

InitS == InitRunIdle /\ InitScrape /\ InitCardIdle

NextS ==
    \/ FetchOk
    \/ FetchFail
    \/ \E c \in CardPool : ParseCard(c)
    \/ EndPage
    \/ ScrapeDone

SpecScrape == InitS /\ [][NextS]_vars

InitC == InitRunIdle /\ InitScrapeIdle /\ InitCard

NextC == CheckCard

SpecCard == InitC /\ [][NextC]_vars

-----------------------------------------------------------------------------
(* Properties of the ledger and the dispatcher (specification Spec) *)

IsPrefix(a, b) == Len(a) <= Len(b) /\ SubSeq(b, 1, Len(a)) = a

\* the lines appended to the file f since it was the file base
AppendedEnds(base, f) == {e \in LineEnds(f) : LineStart(f, e) > Len(base)}

\* how many of them record the URL u
AppendedCount(base, f, u) ==
    Cardinality({e \in AppendedEnds(base, f) :
                   SubSeq(f, LineStart(f, e), e) = u \o <<"\n">>})

Indices(q) == 1..Len(q)
OkCount(q, u) == Cardinality({k \in Indices(q) : q[k].ok /\ q[k].url = u})
Completed == pc = "returned"

\* C1: over uninterrupted runs, no URL receives more than one successful
\* delivery (HTTP 200), whatever the extracted lists, lists that repeat a
\* URL included.
C1_AtMostOnceDelivery ==
    ~interrupted => \A u \in Urls : delivered[u] <= 1

\* C2: in every state, a run killed at any step included, a URL is in the
\* in-memory set only if it was loaded or a delivery for it returned 200,
\* the file is the loaded file followed by lines that each record a URL
\* whose delivery returned 200, and there are never more commits of a URL
\* than 200 answers for it (none before the send, none for a failure).
C2_CommitAfterSuccess ==
    /\ \A u \in sent_urls : u \in loaded \/ delivered[u] > 0
    /\ IsPrefix(file0, file)
    /\ \A e \in AppendedEnds(file0, file) :
         \E u \in Urls : /\ SubSeq(file, LineStart(file, e), e) = u \o <<"\n">>
                         /\ delivered[u] > 0
    /\ \A u \in Urls : AppendedCount(file0, file, u) <= delivered[u]
    /\ pc # "idle" =>
         \A u \in Urls :
           /\ AppendedCount(fstart, file, u) <= OkCount(log, u) + 1
           /\ AppendedCount(fstart, file, u) > OkCount(log, u)
                => pc = "written" /\ new_events[i].url = u
           /\ (u \in sent_urls /\ u \notin loaded) => OkCount(log, u) > 0

\* a run in which one delivery failed and another one was committed
C2_Witness ==
    /\ Completed
    /\ failed > 0
    /\ success > 0
    /\ file # fstart
    /\ sent_urls # loaded

\* C3: filter_new_events keeps exactly the events whose URL is not in the
\* ledger, in order; no attempt is made for a URL that was in the ledger at
\* the start of the run; and after a run in which every delivery succeeded,
\* a second run over the same page finds nothing new (it attempts no
\* delivery and leaves the ledger as it is).
C3_Idempotence ==
    Completed /\ events # <<>> =>
        /\ new_events = SelectSeq(events, LAMBDA e : e.url \notin loaded)
        /\ \A k \in Indices(log) : log[k].url \notin loaded
        /\ failed = 0 =>
             filter_new_events(events, load_sent_urls(file)) = <<>>

\* the ledger as the next process will load it
NextLoad == load_sent_urls(file)

\* C4: the ledger only grows: the file is only appended to, the set of URLs
\* it holds and the in-memory set never lose an entry within a run nor from
\* one run to the next, and only the commit changes either.
C4_LedgerOnlyGrows ==
    [][ /\ IsPrefix(file, file')
        /\ load_sent_urls(file) \subseteq load_sent_urls(file')
        /\ (pc \in {"send", "posted", "written"} /\ pc' # "idle")
             => sent_urls \subseteq sent_urls'
        /\ (pc = "returned" /\ pc' = "idle" /\ events # <<>>)
             => sent_urls \subseteq NextLoad'
        /\ file' # file => pc = "posted"
        /\ (pc \in {"send", "posted", "written"} /\ pc' # "idle"
            /\ sent_urls' # sent_urls) => pc = "written"
      ]_vars

\* C5: an event whose delivery failed is counted as failed and its URL is
\* absent from the ledger at the end of the run, so that the next run that
\* extracts it attempts it again; once a delivery for it has succeeded it
\* is not attempted again.
C5_RetryUntilSuccess ==
    (Completed /\ ~interrupted) =>
        /\ failed = Cardinality({k \in Indices(log) : ~log[k].ok})
        /\ \A k \in Indices(log) :
             ~log[k].ok =>
                /\ log[k].url \notin sent_urls
                /\ log[k].url \notin NextLoad
        /\ \A k \in Indices(log) :
             /\ delivered[log[k].url] <= 1
             /\ \A j \in 1..(k - 1) : log[j].url = log[k].url => ~log[j].ok

\* C6: a completed run returns 0 when nothing was extracted, when every
\* extracted event was already in the ledger, or when every attempt
\* succeeded; it returns 1 exactly when some attempt failed.
C6_ExitCode ==
    Completed =>
        /\ exit_code \in {0, 1}
        /\ exit_code = 1 <=> \E k \in Indices(log) : ~log[k].ok
        /\ events = <<>> => exit_code = 0
        /\ (\A k \in Indices(events) : events[k].url \in load_sent_urls(fstart))
             => exit_code = 0
        /\ (\A k \in Indices(log) : log[k].ok) => exit_code = 0

\* a completed run with one delivery made and one failed
C6_Witness ==
    /\ Completed
    /\ exit_code = 1
    /\ \E k \in Indices(log) : log[k].ok
    /\ \E k \in Indices(log) : ~log[k].ok

\* what C8 and its amendment share: without credentials no request is made,
\* nothing is committed, every new event is counted as failed and the run
\* exits non-zero
NoCredentialsRun ==
    /\ posts = 0
    /\ file = fstart
    /\ sent_urls = loaded
    /\ <<success, failed>> = <<0, Len(new_events)>>
    /\ Len(log) = Len(new_events)
    /\ \A k \in Indices(log) : ~log[k].ok
    /\ exit_code # 0

RanWithoutCredentials == Completed /\ ~creds /\ new_events # <<>>

\* C8 as stated: ... and the configuration failure is reported once in the
\* run.
C8_ReportedOncePerRun ==
    RanWithoutCredentials => NoCredentialsRun /\ reports = 1

\* C8, amended: ... and the configuration failure is reported once per
\* delivery attempt, that is once per new event.
C8_ReportedOncePerAttempt ==
    RanWithoutCredentials => NoCredentialsRun /\ reports = Len(new_events)

\* a run without credentials that had two new events
C8_Witness == RanWithoutCredentials /\ Len(new_events) >= 2

\* C9: every event kept by the filter gets exactly one attempt, in list
\* order, whatever happened to the ones before it; succeeded + failed is the
\* number of kept events and succeeded is the number of commits of the call.
C9_IndependentFailures ==
    /\ pc \in {"send", "posted", "written"} =>
         /\ Len(log) = i - 1
         /\ \A k \in Indices(log) : log[k].url = new_events[k].url
    /\ Completed =>
         /\ Len(log) = Len(new_events)
         /\ \A k \in Indices(log) : log[k].url = new_events[k].url
         /\ success + failed = Len(new_events)
         /\ success = Cardinality({k \in Indices(log) : log[k].ok})
         /\ success = Cardinality(AppendedEnds(fstart, file))

\* a completed call whose first attempt failed and whose last one succeeded
C9_Witness ==
    /\ Completed
    /\ Len(log) >= 2
    /\ ~log[1].ok
    /\ log[Len(log)].ok

-----------------------------------------------------------------------------
(* Properties of the extraction (specifications SpecCard and SpecScrape) *)

\* sub occurs in s: s is some text, then sub, then some text
Occurs(sub, s) ==
    \E a \in 0..Len(s) : \E b \in a..Len(s) : SubSeq(s, a + 1, b) = sub

\* C7: a card is accepted iff its text does not contain the excluded
\* keyword, its status equals the accepting status, and its text contains
\* the required keyword.
C7_AcceptancePredicate ==
    verdict[2] # "unchecked" =>
        /\ verdict[1] <=>
             /\ ~Occurs(EXCLUDED_KEYWORD, card.card_text)
             /\ card.status = UKETSUKECHU
             /\ Occurs(TAIKAI, card.card_text)
        /\ Occurs(EXCLUDED_KEYWORD, card.card_text) => ~verdict[1]

\* a card with the accepting status and the required keyword that is
\* rejected for the excluded keyword
C7_Witness ==
    /\ verdict[2] = "excluded"
    /\ card.status = UKETSUKECHU
    /\ Occurs(TAIKAI, card.card_text)

\* the lines of the date file that are eight digits once stripped
ValidLines ==
    IF ~lines.exists THEN <<>>
    ELSE SelectSeq([k \in 1..Len(lines.text) |-> strip(lines.text[k])],
                   LAMBDA d : Len(d) = 8 /\ Range(d) \subseteq Digits)

\* the event an accepted card gives
EventOf(x) ==
    [title |-> x[1].title, facility |-> x[1].facility, date |-> x[2],
     url |-> IF Head(x[1].href) = "http" THEN x[1].href
             ELSE BASE_URL \o x[1].href]

\* C10: each valid date is fetched once, in order, without retry; a failed
\* fetch or a malformed card contributes nothing and stops nothing; the
\* events are the accepted cards of the fetched dates, in date and card
\* order, each with the date it was fetched for.
C10_NothingAbortsExtraction ==
    LET valid == ValidLines
    IN  /\ Len(fetched) <= Len(valid)
        /\ \A k \in Indices(fetched) : fetched[k].date = valid[k]
        /\ ps = "done" => Len(fetched) = Len(valid)
        /\ out = [k \in Indices(expected) |-> EventOf(expected[k])]
        /\ \A k \in Indices(out) :
             \E n \in Indices(fetched) :
                fetched[n].ok /\ fetched[n].date = out[k].date

\* the first fetch failed, and on a later page a card was skipped before an
\* event was produced
C10_Witness ==
    /\ ps = "done"
    /\ Len(fetched) >= 2
    /\ ~fetched[1].ok
    /\ note = "event after skip"
    /\ out # <<>>

=============================================================================
